---- MODULE Spec2Model ----
(***************************************************************************)
(* Model of src/plugin/syringe/index.ts (EhSyringe): the TagNodeRef        *)
(* tracker and the Syringe mutation pipeline over a live DOM.              *)
(*                                                                         *)
(* Strings are sequences of one-character strings.  DOM nodes are          *)
(* numbered: 1..NumHost are the nodes of the host page, the rest is a      *)
(* pool of nodes that document.createElement / innerHTML / innerText       *)
(* allocate.  Every handler (task or microtask) is one atomic action.      *)
(***************************************************************************)
EXTENDS Integers, Sequences, FiniteSets, TLC

\* ------------------------------------------------------------------ bounds
\* nodes that may be created on top of the host page
PoolSize == 8
\* host insertions that may pile up in one task before the observer runs
MaxQueue == 1

\* ------------------------------------------------------------ basic values
\* JS null for node references (parentElement, parentNode)
Nil == 0
\* an attribute that is not present (hasAttribute(..) = false)
NoAttr == <<"#absent">>
\* JS undefined for a missing part of a destructured split
Undef == <<"#undefined">>

Min(S) == CHOOSE x \in S : \A y \in S : x <= y

\* the element of a one-element set: The({e(x) : x \in {v}}) is e with the
\* value v named x, the way a statement "const x = v" names it
The(S) == CHOOSE x \in S : TRUE

Range(s) == {s[i] : i \in 1..Len(s)}

RECURSIVE Flatten(_)
Flatten(ss) == IF ss = <<>> THEN <<>> ELSE Head(ss) \o Flatten(Tail(ss))

\* String.prototype.startsWith
startsWith(s, p) == Len(s) >= Len(p) /\ SubSeq(s, 1, Len(p)) = p

\* first index of character c in s, 0 when absent
IndexOf(s, c) ==
    IF \E i \in 1..Len(s) : s[i] = c
    THEN Min({i \in 1..Len(s) : s[i] = c})
    ELSE 0

\* String.prototype.split(c): the parts between the occurrences of c
RECURSIVE split(_, _)
split(s, c) ==
    LET i == IndexOf(s, c)
    IN  IF i = 0 THEN <<s>>
        ELSE <<SubSeq(s, 1, i - 1)>> \o split(SubSeq(s, i + 1, Len(s)), c)

\* String.prototype.replace(/c/g, r) for a one-character pattern
replaceAll(s, c, r) == Flatten([i \in 1..Len(s) |-> IF s[i] = c THEN r ELSE <<s[i]>>])

\* String.prototype.replace(c, r) for a one-character, non-global pattern
replaceFirst(s, c, r) ==
    LET i == IndexOf(s, c)
    IN  IF i = 0 THEN s ELSE SubSeq(s, 1, i - 1) \o r \o SubSeq(s, i + 1, Len(s))

\* --------------------------------------------------------------- DOM nodes
FreeNode ==
    [name |-> "", cls |-> {}, id |-> <<>>, title |-> NoAttr, ehsTag |-> NoAttr,
     lang |-> "", text |-> <<>>, kids |-> <<>>, parent |-> Nil, display |-> ""]

Element(name, cls, id, title, parent, kids) ==
    [FreeNode EXCEPT !.name = name, !.cls = cls, !.id = id, !.title = title,
                     !.parent = parent, !.kids = kids]

TextNode(text, parent) ==
    [FreeNode EXCEPT !.name = "#text", !.text = text, !.parent = parent]

\* The host page.  Node 1 is <body>; its parent (<html>) is not modelled.
\*   body
\*    |- div.gt                      (2)  > a#ta_f:x (3) > "x" (4)
\*    |- div.gtl[title="m:y"]        (5)  > "m:y" (6)
\*    |- div.gtw                     (7)  > "u" (8)
\*    |- p.gpc                       (9)  > "S" (10)
\*    |- span.auto-complete-text     (11) > "u" (12)
\*    |- div#gdd                     (13) > "u" (14)
\*    `- div#gdo4                    (15) > div.ths.nosel (16) > "u" (17)
HostPage ==
    << Element("BODY", {}, <<>>, NoAttr, Nil, <<2, 5, 7, 9, 11, 13, 15>>),
       Element("DIV", {"gt"}, <<>>, NoAttr, 1, <<3>>),
       Element("A", {}, <<"t", "a", "_", "f", ":", "x">>, NoAttr, 2, <<4>>),
       TextNode(<<"x">>, 3),
       Element("DIV", {"gtl"}, <<>>, <<"m", ":", "y">>, 1, <<6>>),
       TextNode(<<"m", ":", "y">>, 5),
       Element("DIV", {"gtw"}, <<>>, NoAttr, 1, <<8>>),
       TextNode(<<"u">>, 7),
       Element("P", {"gpc"}, <<>>, NoAttr, 1, <<10>>),
       TextNode(<<"S">>, 9),
       Element("SPAN", {"auto-complete-text"}, <<>>, NoAttr, 1, <<12>>),
       TextNode(<<"u">>, 11),
       Element("DIV", {}, <<"g", "d", "d">>, NoAttr, 1, <<14>>),
       TextNode(<<"u">>, 13),
       Element("DIV", {}, <<"g", "d", "o", "4">>, NoAttr, 1, <<16>>),
       Element("DIV", {"ths", "nosel"}, <<>>, NoAttr, 15, <<17>>),
       TextNode(<<"u">>, 16) >>

NumHost == Len(HostPage)
HostNodes == 1..NumHost
PoolNodes == (NumHost + 1)..(NumHost + PoolSize)
Nodes == HostNodes \cup PoolNodes
Body == CHOOSE n \in HostNodes : HostPage[n].name = "BODY"
\* the host elements the page's scripts insert and remove
Movable ==
    {n \in HostNodes : \/ HostPage[n].name \in {"A", "P"}
                       \/ HostPage[n].cls \cap {"gt", "nosel"} # {}
                       \/ HostPage[n].id = <<"g", "d", "d">>}

isText(d, n) == d[n].name = "#text"

\* Node.parentElement / Node.parentNode
parentOf(d, n) == IF n = Nil THEN Nil ELSE d[n].parent

RECURSIVE RootOf(_, _)
RootOf(d, n) == IF d[n].parent = Nil THEN n ELSE RootOf(d, d[n].parent)

\* the node is in the document the observer watches
Attached(d, n) == n # Nil /\ RootOf(d, n) = Body

RECURSIVE PreOrder(_, _)
PreOrder(d, n) == <<n>> \o Flatten([i \in 1..Len(d[n].kids) |-> PreOrder(d, d[n].kids[i])])

\* Node.textContent (getter)
RECURSIVE textContent(_, _)
textContent(d, n) ==
    IF isText(d, n) THEN d[n].text
    ELSE Flatten([i \in 1..Len(d[n].kids) |-> textContent(d, d[n].kids[i])])

\* the markup below an element, without node identities
RECURSIVE Markup(_, _)
Markup(d, n) ==
    IF isText(d, n) THEN <<"#text", d[n].text>>
    ELSE <<d[n].name, d[n].cls, [i \in 1..Len(d[n].kids) |-> Markup(d, d[n].kids[i])]>>

\* Element.innerHTML (getter), as a structure
innerHTML(d, n) == [i \in 1..Len(d[n].kids) |-> Markup(d, d[n].kids[i])]

RemoveFromSeq(s, x) == SelectSeq(s, LAMBDA y : y # x)

InsertAt(s, i, x) == SubSeq(s, 1, i - 1) \o <<x>> \o SubSeq(s, i, Len(s))

Detach(d, n) ==
    IF d[n].parent = Nil THEN d
    ELSE [d EXCEPT ![d[n].parent].kids = RemoveFromSeq(@, n), ![n].parent = Nil]

\* Node.insertBefore(n, ref) on parent p; ref = Nil appends
InsertBefore(d, p, n, ref) ==
    [Detach(d, n) EXCEPT
        ![p].kids = InsertAt(@, IF ref = Nil \/ IndexOf(@, ref) = 0 THEN Len(@) + 1
                                ELSE IndexOf(@, ref), n),
        ![n].parent = p]

\* ------------------------------------------------- external collaborators
\* services/tagging fullKey({namespace, key}): the pair serialised to one string
fullKey(namespace, key) == namespace \o <<":">> \o (IF key = Undef THEN <<>> ELSE key)

\* an image or emoji inside a dictionary value
IsIcon(c) == c = "E"
\* the inline markup markImagesAndEmoji puts around an icon: <span>E</span>
IconMarkup(c) == IF c = "E" THEN "<E>" ELSE c
IsIconMarkup(c) == c = "<E>"
IconOf(c) == IF c = "<E>" THEN "E" ELSE c

\* services/tagging markImagesAndEmoji: wrap every icon in inline markup
markImagesAndEmoji(value) ==
    [i \in 1..Len(value) |-> IF IsIcon(value[i]) THEN IconMarkup(value[i]) ELSE value[i]]

\* services/tagging removeImagesAndEmoji: strip every icon
removeImagesAndEmoji(value) == SelectSeq(value, LAMBDA c : ~IsIcon(c))

\* services/date-time diff(date, undefined, hour): a relative-time string
timeDiff(t) == <<"R">>

\* Date.parse(t + 'Z') / Date.parse(t + ' UTC') is truthy: "D" and "G" are
\* timestamps of the two shapes that parse, "d" and "g" have the shape but
\* parse to NaN (or to 0)
IsIsoStamp(c) == c \in {"D", "d"}
IsLongStamp(c) == c \in {"G", "g"}
DateParses(c) == c \in {"D", "G"}

\* the fragment parser behind the innerHTML setter: character runs become
\* text nodes, icon markup becomes a SPAN holding one text node
RECURSIVE parseHTML(_)
parseHTML(html) ==
    IF html = <<>> THEN <<>>
    ELSE IF IsIconMarkup(Head(html))
         THEN <<[name |-> "SPAN", text |-> <<IconOf(Head(html))>>]>> \o parseHTML(Tail(html))
         ELSE LET rest == parseHTML(Tail(html))
              IN  IF rest # <<>> /\ rest[1].name = "#text"
                  THEN <<[name |-> "#text", text |-> <<Head(html)>> \o rest[1].text]>> \o Tail(rest)
                  ELSE <<[name |-> "#text", text |-> <<Head(html)>>]>> \o rest

\* the innerText setter: one text node, none for the empty string
parseText(text) == IF text = <<>> THEN <<>> ELSE <<[name |-> "#text", text |-> text]>>

\* ------------------------------------------------ configuration, dictionary
\* values of introduceImageLevel
Levels == {0, 1}
ConfigData ==
    [translateTag : BOOLEAN, translateUi : BOOLEAN, showIcon : BOOLEAN,
     introduceImageLevel : Levels]

\* storage.get('databaseMap') may be undefined
NoMap == [k \in {Undef} |-> <<>>]
KeyX == <<"f", ":", "x">>
KeyY == <<"m", ":", "y">>
\* the dictionaries, key -> name: the cached one knows only KeyX, the one
\* the background page sends knows only KeyY
MapCached == [k \in {KeyX} |-> <<"X">>]
MapRemote == [k \in {KeyY} |-> <<"Y", "E">>]
CachedMaps == {NoMap, MapCached}
RemoteMaps == {MapRemote}

\* services/ui-translation get(): exact replacements and ordered pattern rules
UiData ==
    [plainReplacements |-> [k \in {<<"u">>} |-> <<"U">>],
     regexReplacements |-> <<[pat |-> "x", rep |-> <<"w">>]>>]
\* other dictionaries: one that maps a string to itself and whose rules undo
\* each other, and an empty one
UiDataSame ==
    [plainReplacements |-> [k \in {<<"u">>, <<"k">>} |-> IF k = <<"u">> THEN <<"U">> ELSE k],
     regexReplacements |-> <<[pat |-> "x", rep |-> <<"w">>], [pat |-> "w", rep |-> <<"x">>]>>]
UiDataNone == [plainReplacements |-> <<>>, regexReplacements |-> <<>>]
UiDicts == {UiData, UiDataSame, UiDataNone}

\* --------------------------------------------------- handler-local state
\* A handler runs on a record S: the document (dom), the tracked list (tags),
\* the records the observer has yet to receive (queue), the configuration
\* and dictionary fields of the service, and
\*   observing  the MutationObserver is registered
\*   log        what the handler did, in order: [op, node]
\*   made       per element, how many TagNodeRef objects were ever constructed
\*   ok         no allocation failed for lack of pool nodes
\*   ret, ref, node   the value the last call returned
NoRef == [parent |-> Nil, fullKey |-> <<>>, original |-> <<>>]

Logged(S, op, n) == [S EXCEPT !.log = Append(@, [op |-> op, node |-> n])]

\* a childList record with one added node, when the target is observed
Record(S, target, n) ==
    IF S.observing /\ Attached(S.dom, target)
    THEN [S EXCEPT !.queue = Append(@, n)]
    ELSE S

\* a node object comes into being (createElement, the fragment parser)
Alloc(S, rec) ==
    LET free == {n \in PoolNodes : S.dom[n].name = ""}
    IN  IF ~S.ok \/ free = {}
        THEN [S EXCEPT !.ok = FALSE, !.node = Nil]
        ELSE [S EXCEPT !.dom[Min(free)] = rec, !.node = Min(free)]

\* parent.insertBefore(n, ref), observed
insertBefore(S, parent, n, ref) ==
    IF ~S.ok THEN S
    ELSE Record([S EXCEPT !.dom = InsertBefore(S.dom, parent, n, ref)], parent, n)

\* build the nodes of parsed fragments under p, without records
RECURSIVE BuildChildren(_, _, _)
\* one fragment f becomes the last child of p: a text node, or an element
\* holding the fragment's text
BuildChild(S, p, f) ==
    The({ IF ~S1.ok THEN S1
          ELSE IF f.name = "#text"
          THEN [S1 EXCEPT !.dom = InsertBefore(@, p, S1.node, Nil)]
          ELSE BuildChildren([S1 EXCEPT !.dom = InsertBefore(@, p, S1.node, Nil)],
                             S1.node, parseText(f.text))
          : S1 \in {Alloc(S, IF f.name = "#text"
                             THEN TextNode(f.text, Nil)
                             ELSE Element(f.name, {}, <<>>, NoAttr, Nil, <<>>))} })

BuildChildren(S, p, frags) ==
    IF frags = <<>> \/ ~S.ok THEN S
    ELSE BuildChildren(BuildChild(S, p, Head(frags)), p, Tail(frags))

RECURSIVE RecordAll(_, _, _)
RecordAll(S, target, ns) ==
    IF ns = <<>> THEN S ELSE RecordAll(Record(S, target, Head(ns)), target, Tail(ns))

\* mutant of replaceChildren: the new children are added to the old ones
replaceChildren_append(S, p, frags) ==
    LET S1 == BuildChildren(S, p, frags)
    IN  IF ~S1.ok THEN S1
        ELSE RecordAll(S1, p, SubSeq(S1.dom[p].kids, Len(S.dom[p].kids) + 1, Len(S1.dom[p].kids)))

\* "replace all with a fragment" (the innerHTML, innerText and textContent
\* setters of an element): every child is removed, the new ones are
\* inserted, and one record lists the new children
replaceChildren(S, p, frags) ==
    The({ IF ~S1.ok THEN S1 ELSE RecordAll(S1, p, S1.dom[p].kids)
          : S1 \in {BuildChildren(
                       [S EXCEPT !.dom =
                           [n \in Nodes |->
                               IF n = p THEN [S.dom[n] EXCEPT !.kids = <<>>]
                               ELSE IF n \in Range(S.dom[p].kids)
                               THEN [S.dom[n] EXCEPT !.parent = Nil]
                               ELSE S.dom[n]]],
                       p, frags)} })

\* ------------------------------------------------------------- TagNodeRef
\* get alive(): !!this.parent.parentElement
alive(d, t) == d[t.parent].parent # Nil

\* the value written by translate() for an entry under a configuration
translatedValue(t, config, tagMap) ==
    LET value == tagMap[t.fullKey]
        shown == IF config.showIcon THEN markImagesAndEmoji(value)
                 ELSE removeImagesAndEmoji(value)
    IN  IF Len(t.original) >= 2 /\ t.original[2] = ":"
        THEN <<t.original[1], ":">> \o shown
        ELSE shown

\* mutant of translate: with tag translation off the content is left as it is
translate_norestore(S, t) ==
    IF ~alive(S.dom, t) \/ ~S.config.translateTag THEN [S EXCEPT !.ret = TRUE]
    ELSE IF S.tagMap = NoMap \/ t.fullKey \notin DOMAIN S.tagMap THEN [S EXCEPT !.ret = FALSE]
    ELSE LET S2 == replaceChildren(S, t.parent, parseHTML(translatedValue(t, S.config, S.tagMap)))
         IN  [S2 EXCEPT !.dom[t.parent].lang = "cmn-Hans", !.ret = TRUE]

\* TagNodeRef.translate()
translate(S, t) ==
    IF ~alive(S.dom, t) THEN [S EXCEPT !.ret = TRUE]
    ELSE IF ~S.config.translateTag
    THEN [replaceChildren(S, t.parent, parseText(t.original))
             EXCEPT !.dom[t.parent].lang = "en", !.ret = TRUE]
    ELSE IF S.tagMap = NoMap THEN [S EXCEPT !.ret = FALSE]
    ELSE IF t.fullKey \notin DOMAIN S.tagMap \/ S.tagMap[t.fullKey] = <<>>
    THEN [Logged(S, "lookup", t.parent) EXCEPT !.ret = FALSE]
    ELSE [replaceChildren(Logged(S, "lookup", t.parent), t.parent,
                          parseHTML(translatedValue(t, S.config, S.tagMap)))
             EXCEPT !.dom[t.parent].lang = "cmn-Hans", !.ret = TRUE]

\* the key TagNodeRef.create derives from the element's title or id
fullKeyCandidate(aTitle, aId) ==
    IF aTitle # <<>>
    THEN LET parts == split(aTitle, ":")
         IN  fullKey(parts[1], IF Len(parts) >= 2 THEN parts[2] ELSE Undef)
    ELSE IF aId # <<>>
    THEN LET id    == IF startsWith(aId, <<"t", "a", "_">>) THEN SubSeq(aId, 4, Len(aId)) ELSE aId
             parts == split(replaceAll(id, "_", <<" ">>), ":")
         IN  IF Len(parts) >= 2 /\ parts[2] # <<>>
             THEN fullKey(parts[1], parts[2])
             ELSE fullKey(<<>>, parts[1])
    ELSE Undef

\* new TagNodeRef(parent, fullKey, original, service)
construct(S, parent, key, original) ==
    [S EXCEPT !.dom[parent].ehsTag = original,
              !.dom[parent].lang = "en",
              !.dom[parent].title = IF @ = NoAttr THEN key ELSE @,
              !.made[parent] = IF @ < 2 THEN @ + 1 ELSE @,
              !.ref = [parent |-> parent, fullKey |-> key, original |-> original]]

\* mutant of create: an element without a derivable key counts as handled
create_keyless(S, node) ==
    LET parentElement == S.dom[node].parent
        aTitle == IF S.dom[parentElement].title = NoAttr THEN <<>>
                  ELSE S.dom[parentElement].title
        key == fullKeyCandidate(aTitle, S.dom[parentElement].id)
    IN  IF parentElement = Nil \/ S.dom[parentElement].ehsTag # NoAttr
           \/ key = Undef \/ key = <<>>
        THEN [S EXCEPT !.ret = TRUE, !.ref = NoRef]
        ELSE construct(S, parentElement, key, S.dom[node].text)

\* mutant of create: the processed marker is not consulted
create_unmarked(S, node) ==
    LET parentElement == S.dom[node].parent
        aTitle == IF S.dom[parentElement].title = NoAttr THEN <<>>
                  ELSE S.dom[parentElement].title
        key == fullKeyCandidate(aTitle, S.dom[parentElement].id)
    IN  IF key = Undef \/ key = <<>>
        THEN [S EXCEPT !.ret = FALSE, !.ref = NoRef]
        ELSE construct(S, parentElement, key, S.dom[node].text)

\* TagNodeRef.create(node, service): ref = NoRef when a boolean (ret) is returned
create(S, node) ==
    LET parentElement == S.dom[node].parent
    IN  IF parentElement = Nil \/ S.dom[parentElement].ehsTag # NoAttr
        THEN [S EXCEPT !.ret = TRUE, !.ref = NoRef]
        ELSE LET aId   == S.dom[parentElement].id
                 aTitle == IF S.dom[parentElement].title = NoAttr THEN <<>>
                           ELSE S.dom[parentElement].title
                 key   == fullKeyCandidate(aTitle, aId)
             IN  IF key = Undef \/ key = <<>>
                 THEN [S EXCEPT !.ret = FALSE, !.ref = NoRef]
                 ELSE construct(S, parentElement, key, S.dom[node].text)

\* ---------------------------------------------------------------- Syringe
skipNode == {"TITLE", "LINK", "META", "HEAD", "SCRIPT", "BR", "HR", "STYLE", "MARK"}

LevelClass(n) == IF n = 0 THEN "ehs-image-level-0" ELSE "ehs-image-level-1"
\* the class names k with k.startsWith('ehs')
EhsClasses == {"ehs-hide-icon", "ehs-translate-tag"} \cup {LevelClass(n) : n \in Levels}

\* mutant of setBodyAttrs: the classes of the earlier configuration stay
setBodyAttrs_keep(S, node) ==
    LET cls == S.dom[node].cls \cup {"eh"}
                     \cup (IF ~S.config.showIcon THEN {"ehs-hide-icon"} ELSE {})
                     \cup (IF S.config.translateTag THEN {"ehs-translate-tag"} ELSE {})
                     \cup {LevelClass(S.config.introduceImageLevel)}
    IN  [S EXCEPT !.dom[node].cls = cls,
                  !.dom[node].lang = IF S.config.translateUi THEN "cmn-Hans" ELSE "en"]

\* Syringe.setBodyAttrs(node); the host is not exhentai
setBodyAttrs(S, node) ==
    LET kept == (S.dom[node].cls \cup {"eh"}) \ EhsClasses
        cls  == kept \cup (IF ~S.config.showIcon THEN {"ehs-hide-icon"} ELSE {})
                     \cup (IF S.config.translateTag THEN {"ehs-translate-tag"} ELSE {})
                     \cup {LevelClass(S.config.introduceImageLevel)}
    IN  [S EXCEPT !.dom[node].cls = cls,
                  !.dom[node].lang = IF S.config.translateUi THEN "cmn-Hans" ELSE "en"]

\* Syringe.translateTags(): prune the dead entries, translate the rest
RECURSIVE translateEach(_, _)
translateEach(S, ts) ==
    IF ts = <<>> THEN S ELSE translateEach(translate(S, Head(ts)), Tail(ts))

translateTags(S) ==
    LET tags == SelectSeq(S.tags, LAMBDA t : alive(S.dom, t))
    IN  translateEach([S EXCEPT !.tags = tags], tags)

\* Syringe.isTagContainer(node)
isTagContainer(d, node) ==
    node # Nil /\ d[node].cls \cap {"gt", "gtl", "gtw"} # {}

\* mutant of translateTag: an entry whose first translation failed is dropped
translateTag_dropfailed(S, node) ==
    LET parentElement == S.dom[node].parent
    IN  IF ~isText(S.dom, node) \/ parentElement = Nil
        THEN [S EXCEPT !.ret = FALSE]
        ELSE IF ~isTagContainer(S.dom, parentElement)
                /\ ~isTagContainer(S.dom, parentOf(S.dom, parentElement))
        THEN [S EXCEPT !.ret = FALSE]
        ELSE LET S1 == create(S, node)
             IN  IF S1.ref = NoRef THEN S1
                 ELSE LET S2 == translate(S1, S1.ref)
                      IN  [S2 EXCEPT !.tags = IF S2.ret THEN Append(@, S1.ref) ELSE @,
                                     !.ret = TRUE]

\* Syringe.translateTag(node): ret says whether the node was handled
translateTag(S, node) ==
    LET parentElement == S.dom[node].parent
    IN  IF ~isText(S.dom, node) \/ parentElement = Nil
        THEN [S EXCEPT !.ret = FALSE]
        ELSE IF S.dom[parentElement].name = "MARK"
                \/ "auto-complete-text" \in S.dom[parentElement].cls
        THEN [S EXCEPT !.ret = TRUE]
        ELSE IF ~isTagContainer(S.dom, parentElement)
                /\ ~isTagContainer(S.dom, parentOf(S.dom, parentElement))
        THEN [S EXCEPT !.ret = FALSE]
        ELSE The({ IF S1.ref = NoRef THEN S1
                   ELSE [translate(S1, S1.ref) EXCEPT !.tags = Append(@, S1.ref),
                                                      !.ret = TRUE]
                   : S1 \in {create(S, node)} })

\* one pattern rule of the UI dictionary applied to a string
applyRule(text, rule) == replaceAll(text, rule.pat, rule.rep)

RECURSIVE applyRules(_, _)
applyRules(text, rules) ==
    IF rules = <<>> THEN text ELSE applyRules(applyRule(text, Head(rules)), Tail(rules))

\* the two timestamp normalisers: a match that does not parse is kept
normaliseDates(text) ==
    LET iso  == Flatten([i \in 1..Len(text) |->
                    IF IsIsoStamp(text[i]) /\ DateParses(text[i])
                    THEN timeDiff(text[i]) ELSE <<text[i]>>])
    IN  Flatten([i \in 1..Len(iso) |->
                    IF IsLongStamp(iso[i]) /\ DateParses(iso[i])
                    THEN timeDiff(iso[i]) ELSE <<iso[i]>>])

\* mutant of translateUiText: the rewritten string is returned as it is
translateUiText_nocheck(ui, text) ==
    IF text \in DOMAIN ui.plainReplacements
    THEN ui.plainReplacements[text]
    ELSE normaliseDates(applyRules(text, ui.regexReplacements))

\* Syringe.translateUiText(text) on the dictionary ui; Undef when it returns undefined
translateUiText(ui, text) ==
    IF text \in DOMAIN ui.plainReplacements
    THEN ui.plainReplacements[text]
    ELSE The({ IF repText # text THEN repText ELSE Undef
               : repText \in {normaliseDates(applyRules(text, ui.regexReplacements))} })

\* the page-count rewrite of translateUi: "S" stands for a string the
\* /Showing .. of .. images?/ pattern matches, "P" for its rewrite
pageCount(text) == replaceFirst(text, "S", <<"P">>)

\* a hidden or visible copy of a node's text: document.createElement(name),
\* textContent = text, className = cls, style.display = display
makeCopy(S, name, cls, text, display) ==
    The({ IF ~S1.ok THEN S1
          ELSE [BuildChildren(S1, S1.node, parseText(text)) EXCEPT !.node = S1.node]
          : S1 \in {Alloc(S, [Element(name, cls, <<>>, NoAttr, Nil, <<>>)
                                 EXCEPT !.display = display])} })

\* translateUi on a text node: textContent = translation
uiTextNode(S, node) ==
    The({ IF translation # Undef THEN [S EXCEPT !.dom[node].text = translation] ELSE S
          : translation \in {translateUiText(S.uiData, S.dom[node].text)} })

\* translateUi on a link of the navigation bar #nb: textContent = translation
uiNavLink(S, node) ==
    IF /\ S.dom[node].name = "A"
       /\ parentOf(S.dom, parentOf(S.dom, node)) # Nil
       /\ S.dom[parentOf(S.dom, parentOf(S.dom, node))].id = <<"n", "b">>
    THEN The({ IF translation # Undef
               THEN replaceChildren(S, node, parseText(translation))
               ELSE S
               : translation \in {translateUiText(S.uiData, textContent(S.dom, node))} })
    ELSE S

\* mutant of uiPageCount: the copy keeps the class of the original
uiPageCount_sameclass(S, node) ==
    IF S.dom[node].name = "P" /\ "gpc" \in S.dom[node].cls
    THEN LET S1 == makeCopy(S, "P", {"gpc"}, pageCount(textContent(S.dom, node)), "")
             S2 == IF S.dom[node].parent = Nil THEN S1
                   ELSE insertBefore(S1, S.dom[node].parent, S1.node, node)
         IN  IF ~S2.ok THEN S2 ELSE [S2 EXCEPT !.dom[node].display = "none"]
    ELSE S

\* translateUi on p.gpc: a rewritten copy is inserted before the element,
\* which is hidden
uiPageCount(S, node) ==
    IF S.dom[node].name = "P" /\ "gpc" \in S.dom[node].cls
    THEN The({ IF ~S2.ok THEN S2 ELSE [S2 EXCEPT !.dom[node].display = "none"]
               : S2 \in {The({ IF S.dom[node].parent = Nil THEN S1
                               ELSE insertBefore(S1, S.dom[node].parent, S1.node, node)
                               : S1 \in {makeCopy(S, "P", {"gpc-translate"},
                                                  pageCount(textContent(S.dom, node)), "")} })} })
    ELSE S

\* translateUi on div#gdd: a hidden copy of the text is appended to it
uiDownloaderCopy(S, node) ==
    IF S.dom[node].name = "DIV" /\ S.dom[node].id = <<"g", "d", "d">>
    THEN The({ insertBefore(S1, node, S1.node, Nil)
               : S1 \in {makeCopy(S, "DIV", {}, textContent(S.dom, node), "none")} })
    ELSE S

\* translateUi on div.ths.nosel under #gdo4: a hidden copy is inserted before it
uiBookmarkCopy(S, node) ==
    IF /\ S.dom[node].name = "DIV" /\ S.dom[node].parent # Nil
       /\ S.dom[S.dom[node].parent].id = <<"g", "d", "o", "4">>
       /\ {"ths", "nosel"} \subseteq S.dom[node].cls
    THEN The({ insertBefore(S1, S.dom[node].parent, S1.node, node)
               : S1 \in {makeCopy(S, "DIV", {"ths"}, textContent(S.dom, node), "none")} })
    ELSE S

\* Syringe.translateUi(node).  The pages hold no INPUT, TEXTAREA or OPTGROUP;
\* their branch rewrites attributes only and returns.
translateUi(S0, node) ==
    The({ IF isText(S.dom, node) THEN uiTextNode(S, node)
          ELSE IF S.dom[node].name \in {"INPUT", "TEXTAREA", "OPTGROUP"} THEN S
          ELSE uiBookmarkCopy(
                   uiDownloaderCopy(uiPageCount(uiNavLink(S, node), node), node), node)
          : S \in {Logged(S0, "translateUi", node)} })

\* mutant of translateNode: UI translation runs whether or not the tag step
\* handled the node
translateNode_both(S0, node) ==
    LET S  == Logged(S0, "translateNode", node)
        S2 == translateTag(S, node)
    IN  IF S2.config.translateUi THEN translateUi(S2, node) ELSE S2

\* Syringe.translateNode(node)
translateNode(S0, node) ==
    The({ IF \/ S.dom[node].name = ""
             \/ S.dom[node].name \in skipNode
             \/ /\ S.dom[node].parent # Nil
                /\ S.dom[S.dom[node].parent].name \in skipNode
          THEN S
          ELSE The({ IF ~S2.ret /\ S2.config.translateUi THEN translateUi(S2, node) ELSE S2
                     : S2 \in {translateTag(IF S.dom[node].name = "BODY"
                                            THEN setBodyAttrs(S, node) ELSE S, node)} })
          : S \in {Logged(S0, "translateNode", node)} })

\* the NodeIterator loop "while (node) { translateNode(node); node = nextNode() }"
\* after `reference` was returned.  The iterator is live: the next node is the
\* one that follows the reference in the tree as it is now, and when the node
\* just returned is removed with its siblings (its parent's content is
\* replaced) the reference moves to that parent.
RECURSIVE walk(_, _, _)
walk(S, root, reference) ==
    The({ IF ~S.ok \/ i = 0 \/ i = Len(PreOrder(S.dom, root)) THEN S
          ELSE The({ The({ walk(S1, root, IF S1.dom[node].parent # S.dom[node].parent
                                          THEN S.dom[node].parent ELSE node)
                           : S1 \in {translateNode(S, node)} })
                     : node \in {PreOrder(S.dom, root)[i + 1]} })
          : i \in {IndexOf(PreOrder(S.dom, root), reference)} })

\* document.createNodeIterator(root) run to its end: the root comes first
iterate(S, root) == walk(translateNode(S, root), root, root)

\* mutant of addedNode: the subtree is rescanned in both phases
addedNode_always(S, node1) ==
    iterate(translateNode(Logged(S, "addedNode", node1), node1), node1)

\* the body of the MutationObserver callback for one added node
addedNode(S, node1) ==
    The({ IF S1.documentEnd THEN iterate(S1, node1) ELSE S1
          : S1 \in {translateNode(Logged(S, "addedNode", node1), node1)} })

\* the MutationObserver callback over the added nodes of its records
RECURSIVE observerCallback(_, _)
observerCallback(S, added) ==
    IF added = <<>> THEN S
    ELSE observerCallback(addedNode(S, Head(added)), Tail(added))

\* Syringe.init(), up to observer.observe(): the startup traversal
init(S) ==
    [iterate(setBodyAttrs(Logged(S, "init", Nil), Body), Body) EXCEPT !.observing = TRUE]

\* mutant of updateConfig: the refresh pass runs before the configuration is replaced
updateConfig_stale(S, conf) ==
    LET S1 == IF S.tagMap # NoMap THEN translateTags(S) ELSE S
        S2 == [S1 EXCEPT !.config = conf, !.storage.config = conf]
    IN  setBodyAttrs(S2, Body)

\* Syringe.updateConfig(config)
updateConfig(S, conf) ==
    The({ IF S2.tagMap # NoMap THEN translateTags(S2) ELSE S2
          : S2 \in {setBodyAttrs([Logged(S, "updateConfig", Nil)
                                     EXCEPT !.config = conf, !.storage.config = conf],
                                 Body)} })

\* the reply to 'get-tag-map': no map when the sha matched
NoData == [map |-> NoMap, sha |-> ""]
ShaOf(m) == IF m = NoMap THEN "" ELSE IF m = MapCached THEN "sha-cached" ELSE "sha-remote"
Replies == {NoData} \cup {[map |-> [k \in DOMAIN m |-> [name |-> m[k]]], sha |-> ShaOf(m)] : m \in RemoteMaps}

\* mutant of tagMapReply: the new dictionary is stored without a refresh pass
tagMapReply_nopass(S, data) ==
    IF data.map # NoMap
    THEN LET newMap == [key \in DOMAIN data.map |-> data.map[key].name]
         IN  [S EXCEPT !.tagMap = newMap, !.storage.databaseMap = newMap,
                       !.storage.databaseSha = data.sha]
    ELSE S

\* mutant of tagMapReply: a reply without a map still runs the refresh pass
tagMapReply_alwayspass(S, data) ==
    IF data.map # NoMap
    THEN LET newMap == [key \in DOMAIN data.map |-> data.map[key].name]
         IN  [translateTags([Logged(S, "tagMapReply", Nil) EXCEPT !.tagMap = newMap])
                EXCEPT !.storage.databaseMap = newMap, !.storage.databaseSha = data.sha]
    ELSE translateTags(Logged(S, "tagMapReply", Nil))

\* the continuation of init() after messaging.emit('get-tag-map') resolved
tagMapReply(S, data) ==
    IF data.map # NoMap
    THEN The({ [translateTags([Logged(S, "tagMapReply", Nil) EXCEPT !.tagMap = newMap])
                   EXCEPT !.storage.databaseMap = newMap, !.storage.databaseSha = data.sha]
               : newMap \in {[key \in DOMAIN data.map |-> data.map[key].name]} })
    ELSE Logged(S, "tagMapReply", Nil)

\* ------------------------------------------------- node numbering, garbage
RECURSIVE SortedSeq(_)
SortedSeq(X) == IF X = {} THEN <<>> ELSE <<Min(X)>> \o SortedSeq(X \ {Min(X)})

RECURSIVE Dedupe(_)
Dedupe(s) ==
    IF s = <<>> THEN <<>>
    ELSE <<Head(s)>> \o Dedupe(SelectSeq(Tail(s), LAMBDA x : x # Head(s)))

\* What is left of a handler's nodes once it returned: created nodes that
\* nothing refers to any more (neither the page nor a pending record) are
\* collected, the others are renumbered in document order.
Canon(S) ==
    LET d      == S.dom
        roots  == SortedSeq({n \in HostNodes : d[n].parent = Nil})
                  \o Dedupe(SelectSeq([i \in 1..Len(S.queue) |-> RootOf(d, S.queue[i])],
                                      LAMBDA r : r \in PoolNodes))
        order  == Flatten([i \in 1..Len(roots) |-> PreOrder(d, roots[i])])
        pool   == SelectSeq(order, LAMBDA n : n \in PoolNodes)
        new(n) == IF n = Nil \/ n \in HostNodes THEN n ELSE NumHost + IndexOf(pool, n)
        old(m) == IF m \in HostNodes THEN m
                  ELSE IF m - NumHost <= Len(pool) THEN pool[m - NumHost] ELSE Nil
    IN  [S EXCEPT
            !.dom = [m \in Nodes |->
                        IF old(m) = Nil THEN FreeNode
                        ELSE [d[old(m)] EXCEPT !.parent = new(@),
                                               !.kids = [i \in 1..Len(@) |-> new(@[i])]]],
            !.queue = [i \in 1..Len(@) |-> new(@[i])]]

\* the number of translateNode calls on node n while the k-th entry of the
\* log (an added node of a record, or the startup traversal) was handled
Dispatches(lg, k, n) ==
    Cardinality({i \in (k + 1)..Len(lg) :
                    /\ lg[i] = [op |-> "translateNode", node |-> n]
                    /\ \A j \in (k + 1)..i : lg[j].op \notin {"addedNode", "init"}})

\* the largest number of translateNode calls a handler made on one node
\* for one added node (or for the startup traversal)
MaxDispatch(lg) ==
    LET counts == {Dispatches(lg, k, lg[i].node) :
                      k \in {j \in 1..Len(lg) : lg[j].op \in {"addedNode", "init"}},
                      i \in 1..Len(lg)}
    IN  IF counts = {} THEN 0 ELSE CHOOSE c \in counts : \A x \in counts : x <= c

\* ------------------------------------------------------------------ state
VARIABLES
    dom,            \* the document and every other node object
    tags,           \* Syringe.tags
    queue,          \* added nodes of the records not yet delivered to the observer
    config,         \* Syringe.config
    tagMap,         \* Syringe.tagMap
    documentEnd,    \* Syringe.documentEnd
    observing,      \* init() ran and the observer is registered
    storage,        \* the synchronous storage: config, databaseMap, databaseSha
    configRead,     \* the storage.async.get('config') promise is pending
    tagMapRequest,  \* the 'get-tag-map' request is pending
    microtask,      \* the observer callback is due before any other task
    made,           \* per element, the TagNodeRef objects ever constructed
    last,           \* the handler that ran last, and its largest dispatch count
    uiData,         \* Syringe.uiData
    uiText,         \* a string handed to translateUiText
    uiOut,          \* what translateUiText returned for it
    asyncStorage    \* storage.async: the stored config, the value the pending
                    \* read will deliver, the change notifications not yet delivered

vars == <<dom, tags, queue, config, tagMap, documentEnd, observing, storage,
          configRead, tagMapRequest, microtask, made, last, uiData, uiText, uiOut,
          asyncStorage>>
textVars == <<uiData, uiText, uiOut>>
\* no call of translateUiText has been made on uiText
NotRun == <<"#notrun">>
\* no handler of the service ran in the last step
Idle == [op |-> "", dispatch |-> 0]

\* the state a handler starts on
Cur ==
    [dom |-> dom, tags |-> tags, queue |-> queue, config |-> config, tagMap |-> tagMap,
     documentEnd |-> documentEnd, observing |-> observing, storage |-> storage,
     made |-> made, uiData |-> uiData, log |-> <<>>, ok |-> TRUE, ret |-> FALSE, ref |-> NoRef, node |-> Nil]

\* the state a handler leaves
Commit(S, op) ==
    /\ S.ok
    /\ \E C \in {Canon(S)} :
           /\ dom' = C.dom
           /\ tags' = C.tags
           /\ queue' = C.queue
           /\ config' = C.config
           /\ tagMap' = C.tagMap
           /\ observing' = C.observing
           /\ storage' = C.storage
           /\ made' = C.made
           /\ last' = IF op = "" THEN Idle ELSE [op |-> op, dispatch |-> MaxDispatch(S.log)]
           /\ UNCHANGED textVars

\* the page as the parser has built it when the script starts: only the
\* blocks in `page` belong to it, and its elements in `missing` are not
\* inserted yet
InitialDom(page, missing) ==
    [n \in Nodes |->
        IF n \notin page THEN FreeNode
        ELSE [HostPage[n] EXCEPT
                 !.parent = IF n \in missing THEN Nil ELSE @,
                 !.kids = SelectSeq(@, LAMBDA k : k \in page \ missing)]]

\* the field initialisers of Syringe, before init() runs
InitOn(page, configs, maps) ==
    /\ \E missing \in SUBSET (Movable \cap page) : dom = InitialDom(page, missing)
    /\ \E conf \in configs, m \in maps :
          /\ config = conf
          /\ tagMap = m
          /\ storage = [config |-> conf, databaseMap |-> m, databaseSha |-> ShaOf(m)]
    /\ tags = <<>>
    /\ queue = <<>>
    /\ documentEnd = FALSE
    /\ observing = FALSE
    /\ configRead = TRUE
    /\ tagMapRequest = TRUE
    /\ microtask = FALSE
    /\ made = [n \in HostNodes |-> 0]
    /\ last = Idle

\* Syringe.init() called by the constructor
Startup ==
    /\ ~observing
    /\ Commit(init(Cur), "init")
    /\ UNCHANGED <<documentEnd, configRead, tagMapRequest, microtask, asyncStorage>>

\* mutant of DOMContentLoaded: the listener flips the phase
DOMContentLoaded_toggle ==
    /\ observing /\ ~microtask
    /\ documentEnd' = ~documentEnd
    /\ last' = Idle
    /\ UNCHANGED <<dom, tags, queue, config, tagMap, observing, storage, configRead,
                   tagMapRequest, microtask, made, textVars, asyncStorage>>

\* the DOMContentLoaded listener
DOMContentLoaded ==
    /\ observing /\ ~microtask /\ ~documentEnd
    /\ documentEnd' = TRUE
    /\ last' = Idle
    /\ UNCHANGED <<dom, tags, queue, config, tagMap, observing, storage, configRead,
                   tagMapRequest, microtask, made, textVars, asyncStorage>>

\* the page (parser or script) appends element n to its place
HostInsert(n) ==
    /\ observing /\ ~microtask /\ Len(queue) < MaxQueue
    /\ dom[n].name # "" /\ dom[n].parent = Nil
    /\ LET S == Cur
           p == HostPage[n].parent
       IN  Commit(Record([S EXCEPT !.dom = InsertBefore(S.dom, p, n, Nil)], p, n), "")
    /\ UNCHANGED <<documentEnd, configRead, tagMapRequest, microtask, asyncStorage>>

\* the page removes element n (with its subtree)
HostRemove(n) ==
    /\ observing /\ ~microtask
    /\ dom[n].parent # Nil
    /\ Commit([Cur EXCEPT !.dom = Detach(dom, n)], "")
    /\ UNCHANGED <<documentEnd, configRead, tagMapRequest, microtask, asyncStorage>>

\* the MutationObserver callback receives every pending record
Observe ==
    /\ queue # <<>>
    /\ Commit(observerCallback([Cur EXCEPT !.queue = <<>>], queue), "observer")
    /\ microtask' = (queue' # <<>>)
    /\ UNCHANGED <<documentEnd, configRead, tagMapRequest, asyncStorage>>

\* storage.async.on('config', (k, ov, nv) => { if (nv) this.updateConfig(nv) })
ConfigChanged(nv) ==
    /\ observing /\ queue = <<>>
    /\ Commit(updateConfig(Cur, nv), "updateConfig")
    /\ microtask' = (queue' # <<>>)
    /\ UNCHANGED <<documentEnd, configRead, tagMapRequest, asyncStorage>>

\* storage.async.get('config').then((conf) => this.updateConfig(conf))
ConfigRead(conf) ==
    /\ observing /\ queue = <<>> /\ configRead
    /\ configRead' = FALSE
    /\ Commit(updateConfig(Cur, conf), "updateConfig")
    /\ microtask' = (queue' # <<>>)
    /\ UNCHANGED <<documentEnd, tagMapRequest, asyncStorage>>

\* messaging.emit('get-tag-map', ..) resolved with data
TagMapReply(data) ==
    /\ observing /\ queue = <<>> /\ tagMapRequest
    /\ tagMapRequest' = FALSE
    /\ Commit(tagMapReply(Cur, data), IF data.map # NoMap THEN "tagMap" ELSE "noTagMap")
    /\ microtask' = (queue' # <<>>)
    /\ UNCHANGED <<documentEnd, configRead, asyncStorage>>

\* either promise rejected: .catch(this.logger.error)
RequestFailed ==
    /\ observing /\ queue = <<>>
    /\ \/ configRead /\ configRead' = FALSE /\ UNCHANGED tagMapRequest
       \/ tagMapRequest /\ tagMapRequest' = FALSE /\ UNCHANGED configRead
    /\ last' = Idle
    /\ UNCHANGED <<dom, tags, queue, config, tagMap, documentEnd, observing, storage,
                   microtask, made, textVars, asyncStorage>>

\* the events of a run whose configurations are drawn from `configs`
NextOn(configs) ==
    \/ Startup
    \/ DOMContentLoaded
    \/ \E n \in Movable : HostInsert(n)
    \/ \E n \in Movable : HostRemove(n)
    \/ Observe
    \/ \E nv \in configs : ConfigChanged(nv)
    \/ \E conf \in configs : ConfigRead(conf)
    \/ \E data \in Replies : TagMapReply(data)
    \/ RequestFailed

\* the host nodes of the blocks whose roots are in `blocks`, and the body
RECURSIVE InBlock(_, _)
InBlock(n, blocks) ==
    n # Nil /\ (n \in blocks \/ InBlock(HostPage[n].parent, blocks))
PageOf(blocks) == {n \in HostNodes : n = Body \/ InBlock(n, blocks)}

\* the service's own dictionary, and no string under test
ServiceText == uiData = UiData /\ uiText = <<>> /\ uiOut = NotRun
\* the asynchronous storage behind ConfigChanged and ConfigRead is left open:
\* they deliver any configuration
StorageOpen == asyncStorage = [config |-> <<>>, snapshot |-> <<>>, changes |-> <<>>]

\* the page with the tag blocks div.gt and div.gtl and the search
\* suggestion span.auto-complete-text; UI translation stays on
TagPage ==
    PageOf({n \in HostNodes : HostPage[n].cls \cap {"gt", "gtl", "auto-complete-text"} # {}})
TagConfigs == {c \in ConfigData : /\ c.translateUi /\ c.introduceImageLevel = 0
                                   /\ (c.translateTag \/ c.showIcon)}
Init == InitOn(TagPage, TagConfigs, CachedMaps) /\ ServiceText /\ StorageOpen
Next == NextOn(TagConfigs)
Spec == Init /\ [][Next]_vars

\* the page with the keyless block div.gtw and the page count p.gpc; tag
\* translation and icons stay on, no dictionary is cached
UiPage == PageOf({n \in HostNodes : HostPage[n].cls \cap {"gtw", "gpc"} # {}})
UiConfigs == {c \in ConfigData : c.translateTag /\ c.showIcon}
InitUi == InitOn(UiPage, UiConfigs, {NoMap}) /\ ServiceText /\ StorageOpen
NextUi == NextOn(UiConfigs)
SpecUi == InitUi /\ [][NextUi]_vars

\* the page with the blocks translateUi copies (p.gpc, div#gdd, the
\* div.ths.nosel of #gdo4) and the tag block div.gt, which the parser
\* inserts and never removes; every feature is on
CopyPage ==
    PageOf({n \in HostNodes : \/ HostPage[n].cls \cap {"gt", "gpc"} # {}
                              \/ HostPage[n].id \in {<<"g", "d", "d">>, <<"g", "d", "o", "4">>}})
CopyConfigs ==
    {c \in ConfigData : /\ c.translateTag /\ c.showIcon /\ c.translateUi
                        /\ c.introduceImageLevel = 0}
InitCopy == InitOn(CopyPage, CopyConfigs, {MapCached}) /\ ServiceText /\ StorageOpen
NextCopy ==
    \/ Startup
    \/ DOMContentLoaded
    \/ \E n \in Movable : HostInsert(n)
    \/ Observe
    \/ \E nv \in CopyConfigs : ConfigChanged(nv)
    \/ \E data \in Replies : TagMapReply(data)
SpecCopy == InitCopy /\ [][NextCopy]_vars

\* ------------------------------------------- the asynchronous config storage
\* the most change notifications waiting for delivery at a time
MaxChanges == 2

\* another context (the options page) stores configuration nv: the listeners
\* of storage.async.on('config', ..) will be notified
StorageSet(nv) ==
    /\ observing /\ ~microtask
    /\ asyncStorage.config # <<nv>>
    /\ Len(asyncStorage.changes) < MaxChanges
    /\ asyncStorage' = [asyncStorage EXCEPT !.config = <<nv>>, !.changes = Append(@, nv)]
    /\ last' = Idle
    /\ UNCHANGED <<dom, tags, queue, config, tagMap, documentEnd, observing, storage,
                   configRead, tagMapRequest, microtask, made, textVars>>

\* the storage serves the storage.async.get('config') issued by
\* getAndInitConfig: the value it holds now is the one the promise resolves to
StorageServe ==
    /\ observing /\ ~microtask
    /\ configRead /\ asyncStorage.snapshot = <<>>
    /\ asyncStorage' = [asyncStorage EXCEPT !.snapshot = asyncStorage.config]
    /\ last' = Idle
    /\ UNCHANGED <<dom, tags, queue, config, tagMap, documentEnd, observing, storage,
                   configRead, tagMapRequest, microtask, made, textVars>>

\* storage.async.on('config', (k, ov, nv) => { if (nv) this.updateConfig(nv) })
\* for the oldest undelivered change
StorageNotify ==
    /\ observing /\ queue = <<>>
    /\ asyncStorage.changes # <<>>
    /\ asyncStorage' = [asyncStorage EXCEPT !.changes = Tail(@)]
    /\ Commit(updateConfig(Cur, Head(asyncStorage.changes)), "updateConfig")
    /\ microtask' = (queue' # <<>>)
    /\ UNCHANGED <<documentEnd, configRead, tagMapRequest>>

\* storage.async.get('config').then((conf) => this.updateConfig(conf)) with
\* the value the storage served
StorageResolve ==
    /\ observing /\ queue = <<>>
    /\ configRead /\ asyncStorage.snapshot # <<>>
    /\ configRead' = FALSE
    /\ Commit(updateConfig(Cur, Head(asyncStorage.snapshot)), "updateConfig")
    /\ microtask' = (queue' # <<>>)
    /\ UNCHANGED <<documentEnd, tagMapRequest, asyncStorage>>

\* a page without tag blocks; the configuration comes from the asynchronous
\* storage, whose content may differ from the synchronous copy at startup
StorageConfigs == UiConfigs
InitStorage ==
    /\ InitOn({Body}, StorageConfigs, {NoMap}) /\ ServiceText
    /\ \E c \in StorageConfigs :
          asyncStorage = [config |-> <<c>>, snapshot |-> <<>>, changes |-> <<>>]
NextStorage ==
    \/ Startup
    \/ \E nv \in StorageConfigs : StorageSet(nv)
    \/ StorageServe
    \/ StorageNotify
    \/ StorageResolve
SpecStorage == InitStorage /\ [][NextStorage]_vars

\* translateUiText alone, on every string of at most MaxLen characters and
\* every dictionary of UiDicts
MaxLen == 2
Alphabet == {"u", "k", "x", "w", "D", "d", "G"}
Inputs == UNION {[1..n -> Alphabet] : n \in 0..MaxLen}
InitText ==
    /\ InitOn({Body}, {CHOOSE c \in TagConfigs : c.translateTag /\ c.showIcon}, {NoMap})
    /\ uiData \in UiDicts
    /\ uiText \in Inputs
    /\ uiOut = NotRun
    /\ StorageOpen

CallText ==
    /\ uiOut = NotRun
    /\ uiOut' = translateUiText(uiData, uiText)
    /\ UNCHANGED <<dom, tags, queue, config, tagMap, documentEnd, observing, storage,
                   configRead, tagMapRequest, microtask, made, last, uiData, uiText,
                   asyncStorage>>

NextText ==
    /\ uiOut # NotRun
    /\ uiText' \in Inputs
    /\ uiOut' = NotRun
    /\ UNCHANGED <<dom, tags, queue, config, tagMap, documentEnd, observing, storage,
                   configRead, tagMapRequest, microtask, made, last, uiData, asyncStorage>>

SpecText == InitText /\ [][CallText \/ NextText]_vars

\* ================================================================ claims
\* the markup that parsed fragments stand for
FragMarkup(frags) ==
    [i \in 1..Len(frags) |->
        IF frags[i].name = "#text" THEN <<"#text", frags[i].text>>
        ELSE <<frags[i].name, {}, <<<<"#text", frags[i].text>>>>>>]

\* what a container shows once translated, and once restored
Shown(t, conf, map) == FragMarkup(parseHTML(translatedValue(t, conf, map)))
Restored(t) == FragMarkup(parseText(t.original))

\* the part of the document a reader of the page can tell apart
DocState(d) ==
    [n \in HostNodes |->
        [content |-> innerHTML(d, n), lang |-> d[n].lang, ehsTag |-> d[n].ehsTag,
         title |-> d[n].title, parent |-> d[n].parent]]

\* the state after a handler, its records delivered and its garbage collected
After(S) == Canon([S EXCEPT !.queue = <<>>, !.log = <<>>])

\* the text nodes whose parent element carries the processed marker
MarkedTexts ==
    {n \in Nodes : /\ isText(dom, n) /\ dom[n].parent # Nil
                   /\ dom[dom[n].parent].ehsTag # NoAttr}

\* the parent or the grandparent of the node is a recognised tag container
InTagRegion(d, n) ==
    \/ isTagContainer(d, parentOf(d, n))
    \/ isTagContainer(d, parentOf(d, parentOf(d, n)))

\* C1 as stated: at most one entry is ever created per owning element, and
\* translateTag on a text node whose parent carries the marker returns
\* 'handled' and adds nothing to the tracked list.
C1_MarkedAlwaysHandled ==
    /\ \A n \in HostNodes : made[n] <= 1
    /\ \A n \in MarkedTexts :
          LET S == translateTag(Cur, n)
          IN  S.ret /\ S.tags = tags /\ S.made = made

\* C1 amended: at most one entry is ever created per owning element and no
\* element is tracked twice; translateTag on a text node whose parent carries
\* the marker adds nothing to the tracked list, and returns 'handled' when
\* the parent or grandparent is still a tag container.
C1_AtMostOneEntry ==
    /\ \A n \in HostNodes : made[n] <= 1
    /\ \A i, j \in 1..Len(tags) : tags[i].parent = tags[j].parent => i = j
    /\ \A n \in MarkedTexts :
          LET S == translateTag(Cur, n)
          IN  /\ S.tags = tags /\ S.made = made
              /\ InTagRegion(dom, n) => S.ret

\* C1 witness: the observer has run on the text that translate() wrote into
\* a tracked, attached container, and the element still has its one entry
C1_Witness ==
    /\ last.op = "observer" /\ queue = <<>>
    /\ \E i \in 1..Len(tags) :
          /\ Attached(dom, tags[i].parent)
          /\ made[tags[i].parent] = 1
          /\ \E n \in MarkedTexts \cap PoolNodes :
                dom[n].parent = tags[i].parent /\ InTagRegion(dom, n)

\* C2: translate() is idempotent: a second and a third call on a tracked
\* entry, under the same configuration and dictionary, return what the first
\* returned and leave the document as the first call left it.
C2_TranslateIdempotent ==
    \A i \in 1..Len(tags) :
        LET t  == tags[i]
            S1 == translate(Cur, t)
            S2 == translate(After(S1), t)
            S3 == translate(After(S2), t)
        IN  (S1.ok /\ S2.ok /\ S3.ok) =>
               /\ S2.ret = S1.ret /\ S3.ret = S1.ret
               /\ DocState(S2.dom) = DocState(S1.dom)
               /\ DocState(S3.dom) = DocState(S1.dom)

\* C2 witness: a refresh pass has just re-translated an entry that shows its
\* translation, and three more calls can be made
C2_Witness ==
    /\ last.op = "updateConfig"
    /\ \E i \in 1..Len(tags) :
          LET t  == tags[i]
              S1 == translate(Cur, t)
              S2 == translate(After(S1), t)
              S3 == translate(After(S2), t)
          IN  /\ Attached(dom, t.parent) /\ dom[t.parent].lang = "cmn-Hans"
              /\ Len(dom[t.parent].kids) > 1
              /\ S1.ok /\ S2.ok /\ S3.ok /\ S1.ret

\* the entry is attached, tracked and shows the translation that the current
\* configuration and dictionary give
Translated(t) ==
    /\ Attached(dom, t.parent)
    /\ config.translateTag
    /\ tagMap # NoMap /\ t.fullKey \in DOMAIN tagMap
    /\ dom[t.parent].lang = "cmn-Hans"
    /\ innerHTML(dom, t.parent) = Shown(t, config, tagMap)

\* C3: for a live entry that shows its translation, a configuration update
\* with translateTag off leaves the container with exactly the text captured
\* at creation and lang 'en', and a following update with translateTag on
\* leaves the same translated content and lang 'cmn-Hans' as before.
C3_RoundTrip ==
    (observing /\ queue = <<>>) =>
        \A i \in 1..Len(tags) :
            LET t   == tags[i]
                off == updateConfig(Cur, [config EXCEPT !.translateTag = FALSE])
                on  == updateConfig(After(off), config)
            IN  (Translated(t) /\ off.ok /\ on.ok) =>
                   /\ innerHTML(off.dom, t.parent) = <<<<"#text", t.original>>>>
                   /\ dom[t.parent].ehsTag = t.original
                   /\ off.dom[t.parent].lang = "en"
                   /\ innerHTML(on.dom, t.parent) = innerHTML(dom, t.parent)
                   /\ on.dom[t.parent].lang = "cmn-Hans"

\* C3 witness: after a configuration update an entry with a one-letter
\* namespace prefix shows its translation with an icon, and both updates of
\* the round trip can run
C3_Witness ==
    /\ observing /\ queue = <<>> /\ last.op = "observer"
    /\ \E i \in 1..Len(tags) :
          LET t   == tags[i]
              off == updateConfig(Cur, [config EXCEPT !.translateTag = FALSE])
              on  == updateConfig(After(off), config)
          IN  Translated(t) /\ config.showIcon /\ Len(t.original) > 1 /\ off.ok /\ on.ok

\* C4 as stated: a refresh pass makes no dictionary lookup for a tracked
\* entry whose element is not attached to the document, leaves the element's
\* content and lang as they are, and removes the entry from the tracked list.
C4_DetachedLeftAlone ==
    tagMap # NoMap =>
        LET S == translateTags(Cur)
        IN  S.ok =>
               \A i \in 1..Len(tags) :
                   LET t == tags[i]
                   IN  ~Attached(dom, t.parent) =>
                          /\ t \notin Range(S.tags)
                          /\ [op |-> "lookup", node |-> t.parent] \notin Range(S.log)
                          /\ innerHTML(S.dom, t.parent) = innerHTML(dom, t.parent)
                          /\ S.dom[t.parent].lang = dom[t.parent].lang

\* the entries of ts whose element still has a parent element
Live(d, ts) == SelectSeq(ts, LAMBDA t : alive(d, t))

\* the dictionary map has a usable value for the entry
HasValue(map, t) == map # NoMap /\ t.fullKey \in DOMAIN map /\ map[t.fullKey] # <<>>

\* what a refresh pass under configuration conf owes a live entry: the
\* original text, the translation, or (dictionary miss) what was there
Refreshed(S, t, conf) ==
    IF ~conf.translateTag
    THEN /\ innerHTML(S.dom, t.parent) = Restored(t)
         /\ S.dom[t.parent].lang = "en"
    ELSE IF HasValue(tagMap, t)
    THEN /\ innerHTML(S.dom, t.parent) = Shown(t, conf, tagMap)
         /\ S.dom[t.parent].lang = "cmn-Hans"
    ELSE /\ innerHTML(S.dom, t.parent) = innerHTML(dom, t.parent)
         /\ S.dom[t.parent].lang = dom[t.parent].lang

\* C5 as stated: every updateConfig replaces the whole configuration and,
\* before it returns, has pruned the dead entries and translated every live
\* one under the new configuration, in every state, dictionary loaded or not.
C5_AlwaysRefreshes ==
    (observing /\ queue = <<>>) =>
        \A conf \in ConfigData :
            LET S == updateConfig(Cur, conf)
            IN  S.ok =>
                   /\ S.config = conf /\ S.storage.config = conf
                   /\ S.tags = Live(dom, tags)
                   /\ \A i \in 1..Len(S.tags) : Refreshed(S, S.tags[i], conf)

\* C5 amended: every updateConfig replaces the whole configuration before it
\* returns; when a tag dictionary is loaded it has also pruned the dead
\* entries and translated every live one under the new configuration only;
\* while no dictionary is loaded it runs no pass: the tracked list (dead
\* entries included) and the containers of its entries stay as they were.
C5_RefreshesWhenLoaded ==
    (observing /\ queue = <<>>) =>
        \A conf \in ConfigData :
            LET S == updateConfig(Cur, conf)
            IN  S.ok =>
                   /\ S.config = conf /\ S.storage.config = conf
                   /\ tagMap # NoMap =>
                         /\ S.tags = Live(dom, tags)
                         /\ \A i \in 1..Len(S.tags) : Refreshed(S, S.tags[i], conf)
                   /\ tagMap = NoMap =>
                         /\ S.tags = tags
                         /\ \A i \in 1..Len(tags) :
                               /\ innerHTML(S.dom, tags[i].parent) = innerHTML(dom, tags[i].parent)
                               /\ S.dom[tags[i].parent].lang = dom[tags[i].parent].lang
                               /\ S.dom[tags[i].parent].kids = dom[tags[i].parent].kids

\* C5 witness: a configuration update has just run with a dictionary loaded;
\* one element's entry was pruned and a remaining entry shows its translation
C5_Witness ==
    /\ last.op = "updateConfig" /\ tagMap # NoMap
    /\ \E n \in HostNodes : made[n] = 1 /\ \A i \in 1..Len(tags) : tags[i].parent # n
    /\ \E i \in 1..Len(tags) : Translated(tags[i])

\* C6: when the handler of a fetch that delivered a dictionary finishes, the
\* container of every live tracked entry whose key the new dictionary holds
\* shows the value derived from that dictionary, with lang 'cmn-Hans',
\* provided translateTag is enabled.
C6_ReloadRetriesMisses ==
    (last.op = "tagMap" /\ config.translateTag) =>
        /\ tagMap \in RemoteMaps /\ storage.databaseMap = tagMap
        /\ \A i \in 1..Len(tags) :
              (alive(dom, tags[i]) /\ HasValue(tagMap, tags[i])) =>
                 /\ innerHTML(dom, tags[i].parent) = Shown(tags[i], config, tagMap)
                 /\ dom[tags[i].parent].lang = "cmn-Hans"

\* C6 witness: the fetch handler has just finished and an attached entry
\* shows the value of the delivered dictionary
C6_Witness ==
    /\ last.op = "tagMap" /\ config.translateTag
    /\ \E i \in 1..Len(tags) :
          /\ Attached(dom, tags[i].parent) /\ HasValue(tagMap, tags[i])
          /\ innerHTML(dom, tags[i].parent) = Shown(tags[i], config, tagMap)

\* the key that element p's title or id yields
KeyOf(d, p) ==
    fullKeyCandidate(IF d[p].title = NoAttr THEN <<>> ELSE d[p].title, d[p].id)

\* the text nodes of a tag region whose parent element is not marked yet
UnmarkedTagTexts ==
    {n \in Nodes : /\ isText(dom, n) /\ dom[n].parent # Nil
                   /\ InTagRegion(dom, n)
                   /\ dom[dom[n].parent].ehsTag = NoAttr
                   /\ dom[dom[n].parent].name # "MARK"
                   /\ "auto-complete-text" \notin dom[dom[n].parent].cls}

\* those whose parent yields a key, and those whose parent yields none
FreshTagTexts == {n \in UnmarkedTagTexts : KeyOf(dom, dom[n].parent) \notin {Undef, <<>>}}
KeylessTexts == {n \in UnmarkedTagTexts : KeyOf(dom, dom[n].parent) \in {Undef, <<>>}}

\* C7: when translateTag first processes a tag text node while translateTag
\* is enabled and the dictionary is absent or lacks the key, translate()
\* returns failure, the container keeps the original text with lang 'en',
\* and the new entry is appended to the tracked list all the same.
C7_MissStaysTracked ==
    config.translateTag =>
        \A n \in FreshTagTexts :
            LET S == translateTag(Cur, n)
                p == dom[n].parent
                t == S.tags[Len(S.tags)]
            IN  (S.ok /\ ~HasValue(tagMap, [fullKey |-> KeyOf(dom, p)])) =>
                   /\ S.ret
                   /\ Len(S.tags) = Len(tags) + 1 /\ SubSeq(S.tags, 1, Len(tags)) = tags
                   /\ t.parent = p /\ t.original = dom[n].text /\ t.fullKey = KeyOf(dom, p)
                   /\ ~translate(After(S), t).ret
                   /\ innerHTML(S.dom, p) = <<<<"#text", dom[n].text>>>>
                   /\ S.dom[p].lang = "en"

\* C7 witness: an entry made while translateTag was enabled and the
\* dictionary had no value for it is tracked, its container showing the
\* original text with lang 'en'
C7_Witness ==
    /\ last.op \in {"init", "observer"} /\ config.translateTag
    /\ \E i \in 1..Len(tags) :
          /\ Attached(dom, tags[i].parent) /\ ~HasValue(tagMap, tags[i])
          /\ innerHTML(dom, tags[i].parent) = Restored(tags[i])
          /\ dom[tags[i].parent].lang = "en"
          /\ dom[tags[i].parent].ehsTag = tags[i].original

\* translateUi was called on node n by the handler that left S
UiAttempted(S, n) == [op |-> "translateUi", node |-> n] \in Range(S.log)

C9_DispatchedOnce ==
    last.op = "observer" => last.dispatch <= 1

\* C10 as stated: translateUiText never returns a string equal to its
\* input: the result is absent or differs from the input, for every input
\* and every UI dictionary.
C10_NeverReturnsInput ==
    uiOut # NotRun => (uiOut = Undef \/ uiOut # uiText)

\* C10 amended: when the input has an exact-match entry, translateUiText
\* returns that entry's value, whether or not it equals the input; when it
\* has none, the result is absent or a string different from the input.
C10_NoEchoUnlessExact ==
    uiOut # NotRun =>
        IF uiText \in DOMAIN uiData.plainReplacements
        THEN uiOut = uiData.plainReplacements[uiText]
        ELSE uiOut = Undef \/ uiOut # uiText

\* C10 witness: the pattern rules rewrote an input that has no exact-match
\* entry back to itself, and the call returned absent
C10_Witness ==
    /\ uiText # <<>> /\ uiText \notin DOMAIN uiData.plainReplacements
    /\ uiData.regexReplacements # <<>>
    /\ applyRule(uiText, Head(uiData.regexReplacements)) # uiText
    /\ uiOut = Undef

\* C11: in every dispatch, for every configuration, when translateTag
\* reports the node as handled (entry created, parent already marked, or
\* parent a MARK / auto-complete-text element) translateUi is not invoked
\* on that node.
C11_TagBeforeUi ==
    \A n \in Nodes :
        LET S == translateNode(Cur, n)
        IN  (dom[n].name # "" /\ S.ok /\ translateTag(Cur, n).ret) => ~UiAttempted(S, n)

\* C11 witness: after the startup traversal with translateUi enabled a tag is
\* tracked and the text of the auto-complete-text element, which the UI
\* dictionary would rewrite, is as the page wrote it
C11_Witness ==
    /\ last.op = "init" /\ config.translateUi /\ tags # <<>>
    /\ \E n \in HostNodes :
          /\ isText(dom, n) /\ Attached(dom, n)
          /\ "auto-complete-text" \in dom[dom[n].parent].cls
          /\ dom[n].text \in DOMAIN uiData.plainReplacements
          /\ translateTag(Cur, n).ret

\* C12: documentEnd starts false, becomes true only by the DOMContentLoaded
\* listener, is never set back to false, and the startup traversal runs
\* while it is still false.
C12_PhaseMonotonic ==
    /\ ~documentEnd
    /\ [][ /\ documentEnd => documentEnd'
           /\ documentEnd' # documentEnd => DOMContentLoaded
           /\ last'.op = "init" => ~documentEnd /\ ~documentEnd' ]_vars

\* C12 witness: the phase is Loaded and the observer has rescanned an added
\* node's subtree
C12_Witness ==
    documentEnd /\ last.op = "observer" /\ last.dispatch = 2 /\ tags # <<>>

\* the nodes handed to translateNode by a handler, in call order
DispatchedNodes(lg) ==
    LET calls == SelectSeq(lg, LAMBDA e : e.op = "translateNode")
    IN  [i \in 1..Len(calls) |-> calls[i].node]

\* the calls made for the added node n, from state S to state S1, cover n
\* and, in the Loaded phase only, its subtree in pre-order
Covered(S, S1, n) ==
    LET seq  == DispatchedNodes(S1.log)
        desc == PreOrder(S.dom, n)
    IN  /\ seq # <<>> /\ Head(seq) = n
        /\ ~S.documentEnd => seq = <<n>>
        /\ S.documentEnd => SelectSeq(Tail(seq), LAMBDA x : x \in Range(desc)) = desc

RECURSIVE CoveredAll(_, _)
CoveredAll(S, added) ==
    \/ added = <<>> \/ ~S.ok
    \/ LET S1 == addedNode([S EXCEPT !.log = <<>>], Head(added))
       IN  S1.ok => Covered(S, S1, Head(added)) /\ CoveredAll(S1, Tail(added))

\* C13: for every added node of a notification the node itself is dispatched
\* to translateNode in both phases; in the Loaded phase every descendant of
\* it is dispatched too, in pre-order, within the same notification; in the
\* Loading phase no descendant is dispatched for it.
C13_PhaseCoverage ==
    CoveredAll([Cur EXCEPT !.queue = <<>>], queue)

\* C13 witness: a notification in the Loaded phase for a node with
\* descendants, whose handling dispatches them
C13_Witness ==
    /\ queue # <<>> /\ documentEnd
    /\ Len(PreOrder(dom, Head(queue))) > 2
    /\ LET S1 == addedNode([Cur EXCEPT !.queue = <<>>], Head(queue))
       IN  S1.ok /\ Len(DispatchedNodes(S1.log)) > 3

\* C14: a 'get-tag-map' reply that carries no map leaves the dictionary in
\* memory, the tracked list, the document (so every tracked container's
\* content and lang), the stored databaseMap and databaseSha unchanged,
\* queues no record and makes no dictionary lookup.
C14_NoMapNoChange ==
    (observing /\ tagMapRequest) =>
        LET S == tagMapReply(Cur, NoData)
        IN  /\ S.ok
            /\ S.tagMap = tagMap /\ S.tags = tags /\ S.dom = dom
            /\ S.storage = storage /\ S.queue = queue
            /\ \A e \in Range(S.log) : e.op # "lookup"

\* C14 witness: the reply without a map was handled while the tracked list
\* held an entry whose element is detached and tag translation was off, so
\* that a refresh pass would have pruned the list and rewritten content
C14_Witness ==
    /\ last.op = "noTagMap" /\ ~tagMapRequest /\ ~config.translateTag
    /\ \E i \in 1..Len(tags) : ~alive(dom, tags[i])
    /\ \E i \in 1..Len(tags) : alive(dom, tags[i])

\* the body of document d presents configuration c and nothing else
BodyShows(d, c) ==
    /\ d[Body].cls \cap EhsClasses =
          (IF ~c.showIcon THEN {"ehs-hide-icon"} ELSE {})
          \cup (IF c.translateTag THEN {"ehs-translate-tag"} ELSE {})
          \cup {LevelClass(c.introduceImageLevel)}
    /\ d[Body].lang = IF c.translateUi THEN "cmn-Hans" ELSE "en"

\* C15: after startup and after every configuration update the body's
\* 'ehs' classes are exactly those of the configuration held (ehs-hide-icon
\* iff showIcon is off, ehs-translate-tag iff translateTag is on, the one
\* ehs-image-level class), with none left from an earlier configuration,
\* and its lang is cmn-Hans iff translateUi is on.
C15_BodyReflectsConfig ==
    observing =>
        /\ BodyShows(dom, config)
        /\ \A c \in ConfigData :
              LET S == updateConfig(Cur, c)
              IN  S.ok => S.config = c /\ BodyShows(S.dom, c)

\* C15 witness: a configuration update to image level 1 without UI
\* translation has been applied to a body that showed another configuration
C15_Witness ==
    /\ last.op = "updateConfig" /\ ~configRead
    /\ config.introduceImageLevel = 1 /\ ~config.translateUi
    /\ LevelClass(1) \in dom[Body].cls /\ dom[Body].lang = "en"
    /\ \E c \in ConfigData :
          /\ c.introduceImageLevel = 0 /\ c.translateUi /\ ~c.showIcon
          /\ updateConfig(Cur, c).ok
          /\ "ehs-hide-icon" \in updateConfig(Cur, c).dom[Body].cls

\* C16 as stated: whenever no record is pending, every element that carries
\* the ehs-tag marker and is attached to the document has an entry in the
\* tracked list.
C16_MarkedAttachedTracked ==
    (observing /\ queue = <<>>) =>
        \A n \in Nodes :
            (dom[n].name # "" /\ ~isText(dom, n) /\ Attached(dom, n)
                /\ dom[n].ehsTag # NoAttr)
            => \E i \in 1..Len(tags) : tags[i].parent = n

\* C17 as stated: after a refresh pass with translateTag enabled (a
\* dictionary load, or a configuration update with a dictionary loaded) the
\* container of every live tracked entry shows either the original text with
\* lang 'en' or the value the current dictionary gives for its key with lang
\* 'cmn-Hans'.
C17_NoStaleTranslation ==
    (last.op \in {"tagMap", "updateConfig"} /\ tagMap # NoMap /\ config.translateTag) =>
        \A i \in 1..Len(tags) :
            alive(dom, tags[i]) =>
                \/ /\ innerHTML(dom, tags[i].parent) = Restored(tags[i])
                   /\ dom[tags[i].parent].lang = "en"
                \/ /\ HasValue(tagMap, tags[i])
                   /\ innerHTML(dom, tags[i].parent) = Shown(tags[i], config, tagMap)
                   /\ dom[tags[i].parent].lang = "cmn-Hans"

\* C18 as stated: once the initial read has resolved and every change
\* notification has been handled, the configuration the service holds is
\* the one stored last.
C18_LatestConfigWins ==
    (observing /\ ~configRead /\ asyncStorage.changes = <<>>) =>
        <<config>> = asyncStorage.config

\* node n lies inside an element that carries the ehs-tag marker
RECURSIVE InsideMarked(_, _)
InsideMarked(d, n) ==
    /\ d[n].parent # Nil
    /\ (d[d[n].parent].ehsTag # NoAttr \/ InsideMarked(d, d[n].parent))

\* C19 as stated: when the observer handles the pending records, translateUi
\* is invoked on no text node that lies anywhere inside an element carrying
\* the ehs-tag marker, text nested in the inline markup of a translated
\* value included.
C19_TagTextNeverUi ==
    queue # <<>> =>
        LET S == observerCallback([Cur EXCEPT !.queue = <<>>], queue)
        IN  S.ok =>
               \A n \in Nodes :
                   (isText(dom, n) /\ InsideMarked(dom, n)) => ~UiAttempted(S, n)

\* C20: whenever records caused by the pipeline's own writes (replaced tag
\* content, the copies made for p.gpc, div#gdd and the #gdo4 div) are
\* pending, the observer run that is due handles them to the end and queues
\* no further record: after it no notification is pending, so the pipeline
\* is quiet at most two observer runs after any event of the page, the
\* configuration or the dictionary.
C20_Quiesces ==
    microtask =>
        /\ queue # <<>>
        /\ LET S == observerCallback([Cur EXCEPT !.queue = <<>>], queue)
           IN  S.ok /\ S.queue = <<>>

\* C20 witness: the record of an inserted page-count copy is pending in the
\* Loaded phase and the observer, which rescans the copy, queues no record
C20_Witness ==
    /\ microtask /\ documentEnd
    /\ \E i \in 1..Len(queue) : "gpc-translate" \in dom[queue[i]].cls
    /\ LET S == observerCallback([Cur EXCEPT !.queue = <<>>], queue)
       IN  S.ok /\ S.queue = <<>> /\ MaxDispatch(S.log) = 2

====
